---- MODULE Spec2Model ----
(***************************************************************************)
(* Commentia room registry: RoomService (createRoom, getRoom, closeRoom,   *)
(* getRoomByCode), the REST handlers in front of it, and the rooms table   *)
(* of the durable store with its time-to-live reclamation.                 *)
(*                                                                         *)
(* Strings are sequences of one-character strings, so that trimming,      *)
(* upper-casing and code generation are computed and not assumed.          *)
(* Every await of a store command is one atomic step; an invocation is a   *)
(* process that may be interleaved with the others between its awaits.     *)
(***************************************************************************)
EXTENDS Integers, Sequences, FiniteSets, TLC

\* ------------------------------------------------------------- bounds
\* concurrent handler invocations
NumProcs == 2
\* records the rooms table may hold at once (stored plus being created)
MaxRooms == 3
\* the clock readings of a run: whole days and half seconds past them
MaxDays == 1
MaxHalfSeconds == 0
\* Math.random() takes the values k / RandDenom, k in 0 .. RandDenom-1
RandDenom == 4
\* distinct random suffixes generateRoomId can draw
NumRandIds == 3
\* requests the model lets arrive in one run
MaxOps == 4
\* connections the transport opens in one run
MaxConnections == 2
\* comments the comments table may hold
MaxComments == 3
\* the clock readings while comments are posted: half posting intervals
MaxHalfIntervals == 4
\* calls one client makes in a row
MaxTrace == 4

\* ---------------------------------------------------- program constants
CODE_LENGTH == 6
TTL_SECONDS == 86400
HOST_ID_MAX_LENGTH == 100
MIN_POST_INTERVAL_MS == 3000
LIKE_COUNT_WIDTH == 10
\* records one Scan request reads before it stops and hands back a
\* LastEvaluatedKey (the store's 1 MB page, scaled to records)
ScanPageLimit == 2

Procs == 1 .. NumProcs

\* the readings the clock passes through, milliseconds: a day here is the
\* time-to-live and one second, the first reading at which a record is expired
ClockReadings ==
  { (d * ((TTL_SECONDS + 1) * 1000)) + (h * 500) :
      d \in 0 .. MaxDays, h \in 0 .. MaxHalfSeconds }

\* ----------------------------------------------------------- strings
\* const chars = '123456789ABCDEFGHJKMNPQRSTUVWXYZ'
chars ==
  << "1", "2", "3", "4", "5", "6", "7", "8", "9",
     "A", "B", "C", "D", "E", "F", "G", "H", "J", "K", "M", "N",
     "P", "Q", "R", "S", "T", "U", "V", "W", "X", "Y", "Z" >>

LowerLetters ==
  << "a", "b", "c", "d", "e", "f", "g", "h", "i", "j", "k", "l", "m",
     "n", "o", "p", "q", "r", "s", "t", "u", "v", "w", "x", "y", "z" >>

UpperLetters ==
  << "A", "B", "C", "D", "E", "F", "G", "H", "I", "J", "K", "L", "M",
     "N", "O", "P", "Q", "R", "S", "T", "U", "V", "W", "X", "Y", "Z" >>

IndexOf(seq, c) == CHOOSE i \in 1 .. Len(seq) : seq[i] = c

Range(seq) == { seq[i] : i \in 1 .. Len(seq) }

\* String.prototype.toUpperCase, one character
toUpperCaseChar(c) ==
  IF c \in Range(LowerLetters) THEN UpperLetters[IndexOf(LowerLetters, c)] ELSE c

\* String.prototype.toUpperCase
toUpperCase(s) == [ i \in 1 .. Len(s) |-> toUpperCaseChar(s[i]) ]

\* String.prototype.toLowerCase (used to write request inputs only)
toLowerCase(s) ==
  [ i \in 1 .. Len(s) |->
      IF s[i] \in Range(UpperLetters)
        THEN LowerLetters[IndexOf(UpperLetters, s[i])] ELSE s[i] ]

IsWhitespace(c) == c \in { " ", "\t", "\n" }

RECURSIVE trimStart(_)
trimStart(s) ==
  IF s # << >> /\ IsWhitespace(Head(s)) THEN trimStart(Tail(s)) ELSE s

RECURSIVE trimEnd(_)
trimEnd(s) ==
  IF s # << >> /\ IsWhitespace(s[Len(s)])
    THEN trimEnd(SubSeq(s, 1, Len(s) - 1)) ELSE s

\* mutant of trim: nothing is removed
trimNothing(s) == s

\* String.prototype.trim
trim(s) == trimEnd(trimStart(s))

\* ------------------------------------------------------ code generation
\* mutant of randomChar: the alphabet keeps the look-alike characters
randomCharFullAlphabet(k) ==
  LET all == << "0", "1", "2", "3", "4", "5", "6", "7", "8", "9" >> \o UpperLetters
  IN  all[((k * Len(all)) \div RandDenom) + 1]

\* chars.charAt(Math.floor(Math.random() * chars.length)), Math.random() = k / RandDenom
randomChar(k) == chars[((k * Len(chars)) \div RandDenom) + 1]

RECURSIVE generateLoop(_, _, _)
generateLoop(i, code, rnd) ==
  IF i < CODE_LENGTH
    THEN generateLoop(i + 1, Append(code, randomChar(rnd[i + 1])), rnd)
    ELSE code

\* RoomService.generateRoomCode, rnd the six values Math.random() returns
generateRoomCode(rnd) == generateLoop(0, << >>, rnd)

\* RoomService.generateRoomId: `${Date.now()}-${random}`
generateRoomId(clock, random) == << clock, random >>

\* ------------------------------------------------------------- state
VARIABLES
  rooms,      \* the rooms table: roomId -> RoomItem, for the records it holds
  now,        \* the wall clock, milliseconds
  pc,         \* where each invocation stands
  local,      \* the locals an invocation carries across its awaits
  result,     \* the response handed back by the last step, if it handed one back
  ops,        \* requests arrived so far
  genInput,   \* generateRoomCode alone: the random values drawn
  genOutput,  \* generateRoomCode alone: the code produced
  connections, \* the connections table: connectionId -> Connection
  issued,     \* connection ids the transport has issued so far
  events,     \* the events handed to BroadcastFanout, in the order they were handed
  inbox,      \* per connection, the events the transport has delivered to it, in order
  gone,       \* the connections whose client has gone away
  comments,   \* the comments table: commentId -> Comment
  likes,      \* the likes table: the (commentId, userId) pairs that have a Like record
  limits,     \* the rate limiter's records: (userId, roomId, action) -> count and last time
  trace,      \* one client's like and unlike calls in a row: what each returned
  apiGatewayManagementClient, \* per execution environment, the module's cached WebSocket client
  env         \* process.env: the WEBSOCKET_ENDPOINT the functions are deployed with

\* the state of the real-time layer (connections, comments, likes, fan-out)
live == << connections, issued, events, inbox, gone, comments, likes, limits, trace >>

\* the AWS client module's state
clients == << apiGatewayManagementClient, env >>

vars == << rooms, now, pc, local, result, ops, genInput, genOutput, live, clients >>

NoRoom == [ none |-> TRUE ]
NoLocal == [ none |-> TRUE ]
NoResult == [ op |-> "none" ]
NoClosedAt == -1

\* const defaultSettings: RoomSettings
defaultSettings ==
  [ maxCommentsPerUser |-> 50, maxLikesPerUser |-> 100, commentMaxLength |-> 500 ]

\* { ...defaultSettings, ...customSettings }
mergeSettings(customSettings) ==
  [ f \in DOMAIN defaultSettings \cup DOMAIN customSettings |->
      IF f \in DOMAIN customSettings THEN customSettings[f] ELSE defaultSettings[f] ]

\* mutant of computeTtl: the clock's milliseconds are taken for seconds
computeTtlMilliseconds(clock) == clock + TTL_SECONDS

\* Math.floor(Date.now() / 1000) + 86400
computeTtl(clock) == (clock \div 1000) + TTL_SECONDS

\* const roomItem: RoomItem = { ... }
makeRoomItem(roomId, roomCode, hostId, clock, customSettings) ==
  [ roomId    |-> roomId,
    roomCode  |-> roomCode,
    hostId    |-> trim(hostId),
    createdAt |-> clock,
    status    |-> "active",
    settings  |-> mergeSettings(customSettings),
    ttl       |-> computeTtl(clock),
    closedAt  |-> NoClosedAt ]

\* RoomService.convertToRoom
convertToRoom(roomItem) ==
  [ roomId    |-> roomItem.roomId,
    roomCode  |-> roomItem.roomCode,
    hostId    |-> roomItem.hostId,
    createdAt |-> roomItem.createdAt,
    status    |-> roomItem.status,
    settings  |-> roomItem.settings ]

\* ------------------------------------------------------------ outcomes
\* a returned value, or a thrown error with its class, status and code
Returned(statusCode, room) ==
  [ class |-> "ok", statusCode |-> statusCode, code |-> "OK", room |-> room ]

Thrown(class, statusCode, code, message) ==
  [ class |-> class, statusCode |-> statusCode, code |-> code, message |-> message,
    room |-> NoRoom ]

\* the messages name the field or the resource; the model keeps one of each
ValidationError == Thrown("ValidationError", 400, "VALIDATION_ERROR", "Field is required")
NotFoundError == Thrown("NotFoundError", 404, "NOT_FOUND", "Room not found")

\* an error of the store that is none of the program's: the SDK's exception,
\* with its name, the HTTP status of the store's answer and its text
StoreErrorText == "The level of configured provisioned throughput for the table was exceeded"

StoreFailure ==
  Thrown("ProvisionedThroughputExceededException", 400,
         "ProvisionedThroughputExceededException", StoreErrorText)

IsCommentiaError(error) ==
  error.class \in { "CommentiaError", "ValidationError", "NotFoundError" }

\* validateRequired(validateString(value, name, maxLength), name) of the handlers
handlerRejects(value, maxLength) == Len(value) > maxLength \/ value = << >>

\* ------------------------------------------------------------- store
\* GetCommand: the record under the key, whatever its ttl
getItem(table, roomId) ==
  IF roomId \in DOMAIN table THEN table[roomId] ELSE NoRoom

\* the records one Scan request may read: a first page of the table
scanPages(table) ==
  { page \in SUBSET DOMAIN table :
      Cardinality(page) =
        IF Cardinality(DOMAIN table) < ScanPageLimit
          THEN Cardinality(DOMAIN table) ELSE ScanPageLimit }

\* mutant of scanFilter: the status is not filtered on
scanFilterAnyStatus(item, roomCode) == item.roomCode = roomCode

\* FilterExpression: 'roomCode = :roomCode AND #status = :status'
scanFilter(item, roomCode) ==
  item.roomCode = roomCode /\ item.status = "active"

\* mutant of putCondition: the write is unconditional
putConditionAlways(table, roomId) == TRUE

\* PutCommand, ConditionExpression: 'attribute_not_exists(PK)'
putCondition(table, roomId) == roomId \notin DOMAIN table

\* UpdateCommand, ConditionExpression: 'attribute_exists(PK) AND #hostId = :hostId'
updateCondition(table, roomId, hostId) ==
  roomId \in DOMAIN table /\ table[roomId].hostId = hostId

\* mutant of updateItem: the status is left as it was
updateItemKeepStatus(item, clock) == [ item EXCEPT !.closedAt = clock ]

\* mutant of updateItem: the update also renews the record's ttl
updateItemRenewTtl(item, clock) ==
  [ item EXCEPT !.status = "closed", !.closedAt = clock, !.ttl = computeTtl(clock) + 1 ]

\* UpdateExpression: 'SET #status = :status, #closedAt = :closedAt'
updateItem(item, clock) == [ item EXCEPT !.status = "closed", !.closedAt = clock ]

\* the store's time-to-live: a record is expired once its ttl lies in the past
isExpired(item, clock) == item.ttl < clock \div 1000

\* ----------------------------------------------------------- service
\* mutant of getRoom: a closed room is returned like an active one
getRoomIgnoringStatus(table, roomId) ==
  IF roomId = << >> THEN ValidationError
  ELSE IF getItem(table, roomId) = NoRoom THEN NotFoundError
  ELSE Returned(200, convertToRoom(getItem(table, roomId)))

\* RoomService.getRoom
getRoom(table, roomId) ==
  IF roomId = << >> THEN ValidationError
  ELSE IF getItem(table, roomId) = NoRoom THEN NotFoundError
  ELSE IF getItem(table, roomId).status = "closed"
    THEN Thrown("CommentiaError", 410, "ROOM_CLOSED", "Room is closed")
  ELSE Returned(200, convertToRoom(getItem(table, roomId)))

\* mutant of getRoomByCode: the length of the code is not checked
getRoomByCodeAnyLength(table, roomCode) ==
  UNION { LET Items == { id \in page : scanFilter(table[id], toUpperCase(roomCode)) }
          IN  IF Items = {} THEN { NotFoundError }
              ELSE { Returned(200, convertToRoom(table[id])) : id \in Items }
          : page \in scanPages(table) }

\* RoomService.getRoomByCode: every outcome the one Scan request allows
getRoomByCode(table, roomCode) ==
  IF roomCode = << >> \/ Len(roomCode) # CODE_LENGTH THEN { ValidationError }
  ELSE
    UNION { LET Items == { id \in page : scanFilter(table[id], toUpperCase(roomCode)) }
            IN  IF Items = {} THEN { NotFoundError }
                ELSE { Returned(200, convertToRoom(table[id])) : id \in Items }
            : page \in scanPages(table) }

\* mutant of validateRoomCodeUnique: a found room is not reported as a duplicate
validateRoomCodeUniqueSwallow(found) ==
  IF found.class \in { "ok", "NotFoundError" } THEN Returned(200, NoRoom) ELSE found

\* RoomService.validateRoomCodeUnique, given the outcome of its getRoomByCode
validateRoomCodeUnique(found) ==
  IF found.class = "ok" THEN Thrown("CommentiaError", 409, "ROOM_CODE_EXISTS", "Room code already exists")
  ELSE IF found.class = "NotFoundError" THEN Returned(200, NoRoom)
  ELSE found

\* mutant of closeRoomCheck: the requester is not compared with the host
closeRoomCheckAnyRequester(found, hostId) ==
  IF found.class # "ok" THEN found
  ELSE IF found.room.status = "closed"
    THEN Thrown("CommentiaError", 409, "ROOM_ALREADY_CLOSED", "Room is already closed")
  ELSE Returned(200, NoRoom)

\* RoomService.closeRoom up to its UpdateCommand, given the outcome of its getRoom
closeRoomCheck(found, hostId) ==
  IF found.class # "ok" THEN found
  ELSE IF found.room.hostId # hostId
    THEN Thrown("CommentiaError", 403, "FORBIDDEN", "Only room host can close the room")
  ELSE IF found.room.status = "closed"
    THEN Thrown("CommentiaError", 409, "ROOM_ALREADY_CLOSED", "Room is already closed")
  ELSE Returned(200, NoRoom)

\* the store's answer to a write whose ConditionExpression does not hold
ConditionalCheckFailed ==
  Thrown("ConditionalCheckFailedException", 400, "ConditionalCheckFailedException",
         "The conditional request failed")

\* RoomService.getRoom, its catch
getRoomCatch(error) ==
  IF IsCommentiaError(error) THEN error
  ELSE Thrown("CommentiaError", 500, "INTERNAL_ERROR", "Failed to retrieve room")

\* RoomService.getRoomByCode, its catch
getRoomByCodeCatch(error) ==
  IF IsCommentiaError(error) THEN error
  ELSE Thrown("CommentiaError", 500, "INTERNAL_ERROR", "Failed to find room")

\* RoomService.createRoom, its catch: anything but the failed condition is rethrown
createRoomCatch(error) ==
  IF error.class = "ConditionalCheckFailedException"
    THEN Thrown("CommentiaError", 409, "ROOM_EXISTS", "Room already exists")
    ELSE error

\* RoomService.closeRoom, its catch
closeRoomCatch(error) ==
  IF IsCommentiaError(error) THEN error
  ELSE IF error.class = "ConditionalCheckFailedException"
    THEN Thrown("CommentiaError", 404, "NOT_FOUND", "Room not found or access denied")
  ELSE Thrown("CommentiaError", 500, "INTERNAL_ERROR", "Failed to close room")

\* ------------------------------------------------------------ handlers
\* mutant of createErrorResponse: an error that is no CommentiaError is passed on as it is
createErrorResponseLeaking(error) ==
  [ statusCode |-> error.statusCode, code |-> error.code, message |-> error.message ]

\* createErrorResponse: a CommentiaError keeps its status, code and message,
\* anything else is 500 with a message of the handler's own
createErrorResponse(error) ==
  IF IsCommentiaError(error)
    THEN [ statusCode |-> error.statusCode, code |-> error.code, message |-> error.message ]
    ELSE [ statusCode |-> 500, code |-> "INTERNAL_ERROR", message |-> "Internal server error" ]

\* the response of a handler wrapped in withErrorHandling
response(p, op, roomId, hostId, roomCode, outcome, successStatus) ==
  [ proc       |-> p,
    op         |-> op,
    roomId     |-> roomId,
    hostId     |-> hostId,
    roomCode   |-> roomCode,
    statusCode |-> IF outcome.class = "ok" THEN successStatus
                   ELSE createErrorResponse(outcome).statusCode,
    code       |-> IF outcome.class = "ok" THEN "OK"
                   ELSE createErrorResponse(outcome).code,
    message    |-> IF outcome.class = "ok" THEN ""
                   ELSE createErrorResponse(outcome).message,
    room       |-> outcome.room ]

\* ------------------------------------------------------------- inputs
\* the hostId a POST /rooms body carries
CreateHostIdInputs == { << "h" >>, << " ", "h" >>, << " " >>, << >> }

\* the hostId a DELETE /rooms/{roomId} body carries
CloseHostIdInputs == { << "h" >>, << "g" >>, << " ", "h" >> }

CustomSettingsInputs == { [ maxCommentsPerUser |-> 2 ] }

\* the draws of Math.random() the invocations make for a code: six equal values
RandomDraws ==
  { [ i \in 1 .. CODE_LENGTH |-> k ] : k \in { RandDenom - 2, RandDenom - 1 } }

GeneratedCodes == { generateRoomCode(rnd) : rnd \in RandomDraws }

\* the roomCode a GET /rooms/code/{roomCode} path carries: the codes as
\* generated, in lower case, one character short and one character long
RoomCodeInputs ==
  GeneratedCodes
    \cup { toLowerCase(c) : c \in GeneratedCodes }
    \cup { SubSeq(generateRoomCode([ i \in 1 .. CODE_LENGTH |-> 0 ]), 1, CODE_LENGTH - 1),
           generateRoomCode([ i \in 1 .. CODE_LENGTH |-> 0 ]) \o << "1" >> }

AbsentRoomId == << -1, 0 >>

\* the roomId a /rooms/{roomId} path carries (the route matches no empty one)
RoomIdInputs == DOMAIN rooms \cup { AbsentRoomId }

Creating == { p \in Procs : pc[p] \in { "create_validate", "create_put" } }

\* a request goes to the first free invocation slot (the slots are alike)
Free(p) == pc[p] = "idle" /\ \A q \in Procs : pc[q] = "idle" => p <= q

\* let apiGatewayManagementClient: ApiGatewayManagementApiClient | null = null
NoClient == [ none |-> TRUE ]

\* no endpoint: the argument left out, or the variable not set
NoEndpoint == ""

\* the value the stack gives WEBSOCKET_ENDPOINT
ConfiguredEndpoint == "https://api.execute-api/stage"

\* the client module as loaded in a deployed function, before any call
Deployed ==
  /\ apiGatewayManagementClient = [ p \in Procs |-> NoClient ]
  /\ env = [ WEBSOCKET_ENDPOINT |-> ConfiguredEndpoint ]

\* the real-time layer before any connection, comment or like
NoLive ==
  /\ connections = << >>
  /\ issued = 0
  /\ events = << >>
  /\ inbox = << >>
  /\ gone = {}
  /\ comments = << >>
  /\ likes = {}
  /\ limits = << >>
  /\ trace = << >>

\* --------------------------------------------------------------- Init
Init ==
  /\ rooms = << >>
  /\ now = 0
  /\ pc = [ p \in Procs |-> "idle" ]
  /\ local = [ p \in Procs |-> NoLocal ]
  /\ result = NoResult
  /\ ops = 0
  /\ genInput = << >>
  /\ Deployed
  /\ genOutput = << >>
  /\ NoLive

\* the invocation ends and hands back its response
Finish(p, r) ==
  /\ pc' = [ pc EXCEPT ![p] = "idle" ]
  /\ local' = [ local EXCEPT ![p] = NoLocal ]
  /\ result' = r

\* ------------------------------------------------------------ actions
\* POST /rooms: createRoomHandler and RoomService.createRoom up to its first await
CreateRoomStart(p) ==
  /\ Free(p)
  /\ ops < MaxOps
  /\ ops' = ops + 1
  /\ Cardinality(DOMAIN rooms) + Cardinality(Creating) < MaxRooms
  /\ \E hostId \in CreateHostIdInputs, customSettings \in CustomSettingsInputs,
        rnd \in RandomDraws, random \in 0 .. NumRandIds - 1 :
       IF handlerRejects(hostId, HOST_ID_MAX_LENGTH) \/ Len(trim(hostId)) = 0
         THEN Finish(p, response(p, "createRoom", << >>, hostId, << >>, ValidationError, 201))
         ELSE /\ pc' = [ pc EXCEPT ![p] = "create_validate" ]
              /\ local' = [ local EXCEPT ![p] =
                   [ hostId   |-> hostId,
                     roomItem |-> makeRoomItem(generateRoomId(now, random),
                                    generateRoomCode(rnd), hostId, now, customSettings) ] ]
              /\ result' = NoResult
  /\ UNCHANGED << rooms, now, clients, genInput, genOutput, live >>

\* await this.validateRoomCodeUnique(roomCode)
CreateRoomValidate(p) ==
  /\ pc[p] = "create_validate"
  /\ \E found \in getRoomByCode(rooms, local[p].roomItem.roomCode) :
       LET checked == validateRoomCodeUnique(found)
       IN  IF checked.class = "ok"
             THEN /\ pc' = [ pc EXCEPT ![p] = "create_put" ]
                  /\ result' = NoResult
                  /\ UNCHANGED local
             ELSE Finish(p, response(p, "createRoom", local[p].roomItem.roomId, local[p].hostId,
                                     local[p].roomItem.roomCode, checked, 201))
  /\ UNCHANGED << rooms, now, ops, clients, genInput, genOutput, live >>

\* await this.docClient.send(new PutCommand(...)) and the return or the catch
CreateRoomPut(p) ==
  /\ pc[p] = "create_put"
  /\ LET roomItem == local[p].roomItem
     IN  IF putCondition(rooms, roomItem.roomId)
           THEN /\ rooms' = [ id \in DOMAIN rooms \cup { roomItem.roomId } |->
                                IF id = roomItem.roomId THEN roomItem ELSE rooms[id] ]
                /\ Finish(p, response(p, "createRoom", roomItem.roomId, local[p].hostId,
                                      roomItem.roomCode,
                                      Returned(201, convertToRoom(roomItem)), 201))
           ELSE /\ UNCHANGED rooms
                /\ Finish(p, response(p, "createRoom", roomItem.roomId, local[p].hostId,
                                      roomItem.roomCode,
                                      createRoomCatch(ConditionalCheckFailed), 201))
  /\ UNCHANGED << now, ops, clients, genInput, genOutput, live >>

\* mutant of GetRoom: a room that was found is announced to the fan-out
GetRoomAnnouncing(p) ==
  /\ Free(p)
  /\ ops < MaxOps
  /\ ops' = ops + 1
  /\ \E roomId \in RoomIdInputs :
       LET outcome == IF handlerRejects(roomId, Len(roomId)) THEN ValidationError
                      ELSE getRoom(rooms, roomId)
       IN  /\ Finish(p, response(p, "getRoom", roomId, << >>, << >>, outcome, 200))
           /\ events' = IF outcome.class = "ok"
                          THEN Append(events, [ type |-> "room_viewed", roomId |-> roomId,
                                                subject |-> roomId, count |-> 0 ])
                          ELSE events
  /\ UNCHANGED << rooms, now, clients, genInput, genOutput, connections, issued, inbox, gone,
                  comments, likes, limits, trace >>

\* GET /rooms/{roomId}: getRoomHandler and RoomService.getRoom
GetRoom(p) ==
  /\ Free(p)
  /\ ops < MaxOps
  /\ ops' = ops + 1
  /\ \E roomId \in RoomIdInputs :
       Finish(p, response(p, "getRoom", roomId, << >>, << >>,
                          IF handlerRejects(roomId, Len(roomId)) THEN ValidationError
                          ELSE getRoom(rooms, roomId), 200))
  /\ UNCHANGED << rooms, now, clients, genInput, genOutput, live >>

\* GET /rooms/code/{roomCode}: getRoomByCodeHandler and RoomService.getRoomByCode
GetRoomByCode(p) ==
  /\ Free(p)
  /\ ops < MaxOps
  /\ ops' = ops + 1
  /\ \E roomCode \in RoomCodeInputs :
       IF handlerRejects(roomCode, CODE_LENGTH)
         THEN Finish(p, response(p, "getRoomByCode", << >>, << >>, roomCode, ValidationError, 200))
         ELSE \E found \in getRoomByCode(rooms, roomCode) :
                Finish(p, response(p, "getRoomByCode", << >>, << >>, roomCode, found, 200))
  /\ UNCHANGED << rooms, now, clients, genInput, genOutput, live >>

\* DELETE /rooms/{roomId}: closeRoomHandler and RoomService.closeRoom up to its UpdateCommand
CloseRoomStart(p) ==
  /\ Free(p)
  /\ ops < MaxOps
  /\ ops' = ops + 1
  /\ \E roomId \in RoomIdInputs, hostId \in CloseHostIdInputs :
       LET checked ==
             IF handlerRejects(roomId, Len(roomId)) \/ handlerRejects(hostId, HOST_ID_MAX_LENGTH)
               THEN ValidationError
               ELSE closeRoomCheck(getRoom(rooms, roomId), hostId)
       IN  IF checked.class = "ok"
             THEN /\ pc' = [ pc EXCEPT ![p] = "close_update" ]
                  /\ local' = [ local EXCEPT ![p] = [ roomId |-> roomId, hostId |-> hostId ] ]
                  /\ result' = NoResult
             ELSE Finish(p, response(p, "closeRoom", roomId, hostId, << >>, checked, 200))
  /\ UNCHANGED << rooms, now, clients, genInput, genOutput, live >>

\* await this.docClient.send(new UpdateCommand(...)) and the return or the catch
CloseRoomUpdate(p) ==
  /\ pc[p] = "close_update"
  /\ LET roomId == local[p].roomId
         hostId == local[p].hostId
     IN  IF updateCondition(rooms, roomId, hostId)
           THEN /\ rooms' = [ rooms EXCEPT ![roomId] = updateItem(rooms[roomId], now) ]
                /\ Finish(p, response(p, "closeRoom", roomId, hostId, << >>,
                                      Returned(200, NoRoom), 200))
           ELSE /\ UNCHANGED rooms
                /\ Finish(p, response(p, "closeRoom", roomId, hostId, << >>,
                                      closeRoomCatch(ConditionalCheckFailed), 200))
  /\ UNCHANGED << now, ops, clients, genInput, genOutput, live >>

\* the store reclaims a record whose ttl has passed, at a time of its choosing
Expire ==
  /\ \E roomId \in DOMAIN rooms :
       /\ isExpired(rooms[roomId], now)
       /\ rooms' = [ id \in DOMAIN rooms \ { roomId } |-> rooms[id] ]
  /\ result' = NoResult
  /\ UNCHANGED << now, pc, local, ops, clients, genInput, genOutput, live >>

\* time passes
Tick ==
  /\ \E t \in ClockReadings :
       /\ t > now
       /\ now' = t
  /\ result' = NoResult
  /\ UNCHANGED << rooms, pc, local, ops, clients, genInput, genOutput, live >>

Next ==
  \/ \E p \in Procs : CreateRoomStart(p)
  \/ \E p \in Procs : CreateRoomValidate(p)
  \/ \E p \in Procs : CreateRoomPut(p)
  \/ \E p \in Procs : GetRoom(p)
  \/ \E p \in Procs : GetRoomByCode(p)
  \/ \E p \in Procs : CloseRoomStart(p)
  \/ \E p \in Procs : CloseRoomUpdate(p)
  \/ Expire
  \/ Tick

Spec == Init /\ [][Next]_vars

\* ------------------------------------------ generateRoomCode on its own
\* every sequence of six values Math.random() can return
InitCode ==
  /\ rooms = << >>
  /\ now = 0
  /\ pc = [ p \in Procs |-> "idle" ]
  /\ local = [ p \in Procs |-> NoLocal ]
  /\ result = NoResult
  /\ ops = 0
  /\ genInput \in [ 1 .. CODE_LENGTH -> 0 .. RandDenom - 1 ]
  /\ Deployed
  /\ genOutput = << >>
  /\ NoLive

\* const roomCode = this.generateRoomCode()
Generate ==
  /\ genOutput = << >>
  /\ genOutput' = generateRoomCode(genInput)
  /\ UNCHANGED << rooms, now, pc, local, result, ops, clients, genInput, live >>

NextCode == Generate

SpecCode == InitCode /\ [][NextCode]_vars

\* ------------------------------------------------- the store failing
\* the store command an invocation awaits fails with an error of the store;
\* nothing is written
StoreFails(p) ==
  /\ pc[p] \in { "create_validate", "create_put", "close_update" }
  /\ LET outcome ==
           IF pc[p] = "create_validate"
             THEN createRoomCatch(validateRoomCodeUnique(getRoomByCodeCatch(StoreFailure)))
           ELSE IF pc[p] = "create_put" THEN createRoomCatch(StoreFailure)
           ELSE closeRoomCatch(StoreFailure)
     IN  IF pc[p] = "close_update"
           THEN Finish(p, response(p, "closeRoom", local[p].roomId, local[p].hostId,
                                   << >>, outcome, 200))
           ELSE Finish(p, response(p, "createRoom", local[p].roomItem.roomId, local[p].hostId,
                                   local[p].roomItem.roomCode, outcome, 201))
  /\ UNCHANGED << rooms, now, ops, clients, genInput, genOutput, live >>

\* GET /rooms/{roomId} when the GetCommand fails
GetRoomFails(p) ==
  /\ Free(p)
  /\ ops < MaxOps
  /\ ops' = ops + 1
  /\ \E roomId \in RoomIdInputs :
       /\ ~handlerRejects(roomId, Len(roomId))
       /\ Finish(p, response(p, "getRoom", roomId, << >>, << >>,
                             getRoomCatch(StoreFailure), 200))
  /\ UNCHANGED << rooms, now, clients, genInput, genOutput, live >>

\* GET /rooms/code/{roomCode} when the ScanCommand fails
GetRoomByCodeFails(p) ==
  /\ Free(p)
  /\ ops < MaxOps
  /\ ops' = ops + 1
  /\ \E roomCode \in RoomCodeInputs :
       /\ ~handlerRejects(roomCode, CODE_LENGTH)
       /\ Len(roomCode) = CODE_LENGTH
       /\ Finish(p, response(p, "getRoomByCode", << >>, << >>, roomCode,
                             getRoomByCodeCatch(StoreFailure), 200))
  /\ UNCHANGED << rooms, now, clients, genInput, genOutput, live >>

\* DELETE /rooms/{roomId} when the GetCommand of closeRoom's getRoom fails
CloseRoomGetFails(p) ==
  /\ Free(p)
  /\ ops < MaxOps
  /\ ops' = ops + 1
  /\ \E roomId \in RoomIdInputs, hostId \in CloseHostIdInputs :
       /\ ~handlerRejects(roomId, Len(roomId))
       /\ ~handlerRejects(hostId, HOST_ID_MAX_LENGTH)
       /\ Finish(p, response(p, "closeRoom", roomId, hostId, << >>,
                             closeRoomCatch(getRoomCatch(StoreFailure)), 200))
  /\ UNCHANGED << rooms, now, clients, genInput, genOutput, live >>

NextFault ==
  \/ \E p \in Procs : CreateRoomStart(p)
  \/ \E p \in Procs : CreateRoomValidate(p)
  \/ \E p \in Procs : CreateRoomPut(p)
  \/ \E p \in Procs : GetRoom(p)
  \/ \E p \in Procs : GetRoomByCode(p)
  \/ \E p \in Procs : CloseRoomStart(p)
  \/ \E p \in Procs : CloseRoomUpdate(p)
  \/ \E p \in Procs : StoreFails(p)
  \/ \E p \in Procs : GetRoomFails(p)
  \/ \E p \in Procs : GetRoomByCodeFails(p)
  \/ \E p \in Procs : CloseRoomGetFails(p)

\* the room handlers in front of a store whose commands may fail
SpecFault == Init /\ [][NextFault]_vars

\* ================================================= the real-time layer
\* ConnectionRegistry, RateLimiter, CommentStore, LikeAggregator and
\* BroadcastFanout. Every store command and every transport send is one
\* atomic step of the invocation that issues it.

\* the participants of a run
UserIds == { "u1", "u2" }

\* the display name a client sends with its user id
userNameOf(userId) == IF userId = "u1" THEN "A" ELSE "B"

UserNames == { userNameOf(u) : u \in UserIds }

\* the settings the host of the live room chose
LiveSettings ==
  [ maxCommentsPerUser |-> 2, maxLikesPerUser |-> 2, commentMaxLength |-> 3 ]

LiveRoomId == generateRoomId(0, 0)

\* the room the real-time sessions run in, as createRoom wrote it at clock 0
LiveRoom ==
  makeRoomItem(LiveRoomId, generateRoomCode([ i \in 1 .. CODE_LENGTH |-> 0 ]),
               << "h" >>, 0, LiveSettings)

LiveRooms == [ id \in { LiveRoomId } |-> LiveRoom ]

\* the readings of the clock while comments are posted: half intervals
PostClockReadings ==
  { k * (MIN_POST_INTERVAL_MS \div 2) : k \in 0 .. MaxHalfIntervals }

\* an event handed to BroadcastFanout
Event(type, roomId, subject, count) ==
  [ type |-> type, roomId |-> roomId, subject |-> subject, count |-> count ]

\* the response of an invocation of the real-time layer
reply(p, op, args, outcome) ==
  [ proc       |-> p,
    op         |-> op,
    args       |-> args,
    statusCode |-> IF outcome.class = "ok" THEN outcome.statusCode
                   ELSE createErrorResponse(outcome).statusCode,
    code       |-> IF outcome.class = "ok" THEN "OK"
                   ELSE createErrorResponse(outcome).code,
    message    |-> IF outcome.class = "ok" THEN ""
                   ELSE createErrorResponse(outcome).message,
    value      |-> outcome.room ]

InternalError == Thrown("Error", 500, "INTERNAL_ERROR", StoreErrorText)
RateLimitExceeded == Thrown("CommentiaError", 429, "RATE_LIMIT_EXCEEDED", "Rate limit exceeded")
DuplicateUserName ==
  Thrown("CommentiaError", 409, "DUPLICATE_USERNAME", "User name is already in use")

\* ------------------------------------------------- ConnectionRegistry
\* listConnections(roomId): the connections the room index holds
listConnections(table, roomId) ==
  { c \in DOMAIN table : table[c].roomId = roomId }

\* userName is in use by a different connection of the room
userNameInUse(table, roomId, userName, connectionId) ==
  \E c \in listConnections(table, roomId) :
    table[c].userName = userName /\ c # connectionId

makeConnection(connectionId, roomId, userId, userName, clock) ==
  [ connectionId |-> connectionId,
    roomId       |-> roomId,
    userId       |-> userId,
    userName     |-> userName,
    connectedAt  |-> clock ]

putConnection(table, item) ==
  [ c \in DOMAIN table \cup { item.connectionId } |->
      IF c = item.connectionId THEN item ELSE table[c] ]

\* mutant of deleteConnection: the record is left in the table
deleteConnectionKeep(table, connectionId) == table

\* the delete of a connection record; the store tells whether it held one
deleteConnection(table, connectionId) ==
  [ c \in DOMAIN table \ { connectionId } |-> table[c] ]

\* mutant of leftEvents: user_left is emitted whether a record was removed or not
leftEventsAlways(table, connectionId) ==
  << Event("user_left",
           IF connectionId \in DOMAIN table THEN table[connectionId].roomId ELSE AbsentRoomId,
           connectionId, 0) >>

\* deregisterConnection: user_left, with the count left, only if the record was there
leftEvents(table, connectionId) ==
  IF connectionId \in DOMAIN table
    THEN << Event("user_left", table[connectionId].roomId, connectionId,
                  Cardinality(listConnections(table, table[connectionId].roomId)) - 1) >>
    ELSE << >>

\* ------------------------------------------------------- RateLimiter
NoLastAt == -1
NoLimitRecord == [ count |-> 0, lastAt |-> NoLastAt ]

limitRecord(table, key) == IF key \in DOMAIN table THEN table[key] ELSE NoLimitRecord

\* the minimum interval between two actions of a type
intervalOf(action) == IF action = "comment" THEN MIN_POST_INTERVAL_MS ELSE 0

\* mutant of allowed: only the count quota is enforced
allowedCountOnly(rec, action, limit, clock) == rec.count < limit

\* checkAndRecord, the check: the count quota and the minimum interval
allowed(rec, action, limit, clock) ==
  /\ rec.count < limit
  /\ (rec.lastAt = NoLastAt \/ clock - rec.lastAt >= intervalOf(action))

\* checkAndRecord, the record: one more action, at this time
recordAction(table, key, clock) ==
  [ k \in DOMAIN table \cup { key } |->
      IF k = key THEN [ count |-> limitRecord(table, key).count + 1, lastAt |-> clock ]
      ELSE table[k] ]

\* ------------------------------------------------------ CommentStore
AbsentCommentId == 0

makeComment(commentId, roomId, userId, content, timestamp) ==
  [ commentId |-> commentId,
    roomId    |-> roomId,
    userId    |-> userId,
    userName  |-> userNameOf(userId),
    content   |-> content,
    timestamp |-> timestamp,
    likeCount |-> 0 ]

putComment(table, item) ==
  [ c \in DOMAIN table \cup { item.commentId } |->
      IF c = item.commentId THEN item ELSE table[c] ]

\* postComment's checks on the content, against the room's settings
contentRejected(content, settings) ==
  content = << >> \/ Len(content) > settings.commentMaxLength

\* ---------------------------------------------------- LikeAggregator
\* mutant of likeTransaction: the Like record is written without its condition
likeTransactionUnconditional(cmts, lks, commentId, userId) ==
  IF commentId \notin DOMAIN cmts
    THEN [ comments |-> cmts, likes |-> lks, applied |-> FALSE ]
    ELSE [ comments |-> [ cmts EXCEPT ![commentId].likeCount = @ + 1 ],
           likes    |-> lks \cup { << commentId, userId >> },
           applied  |-> TRUE ]

\* like's write: one transaction that creates the Like record, if there is
\* none, and increments the comment's likeCount by one
likeTransaction(cmts, lks, commentId, userId) ==
  IF commentId \notin DOMAIN cmts \/ << commentId, userId >> \in lks
    THEN [ comments |-> cmts, likes |-> lks, applied |-> FALSE ]
    ELSE [ comments |-> [ cmts EXCEPT ![commentId].likeCount = @ + 1 ],
           likes    |-> lks \cup { << commentId, userId >> },
           applied  |-> TRUE ]

\* unlike's write: one transaction that removes the Like record, if there is
\* one, and decrements the comment's likeCount by one, never below zero
unlikeTransaction(cmts, lks, commentId, userId) ==
  IF commentId \notin DOMAIN cmts \/ << commentId, userId >> \notin lks
    THEN [ comments |-> cmts, likes |-> lks, applied |-> FALSE ]
    ELSE [ comments |-> [ cmts EXCEPT ![commentId].likeCount =
                                       IF @ > 0 THEN @ - 1 ELSE 0 ],
           likes    |-> lks \ { << commentId, userId >> },
           applied  |-> TRUE ]

\* what like and unlike return when the comment is there: its likeCount
likeCountOf(cmts, commentId) ==
  IF commentId \in DOMAIN cmts
    THEN Returned(200, cmts[commentId].likeCount)
    ELSE NotFoundError

\* like goes on to the rate limiter and the write
Proceed == [ class |-> "proceed" ]

\* mutant of likeLookup: a Like record that is there already is not looked for
likeLookupIgnoringRecord(cmts, lks, table, commentId, userId) ==
  IF commentId \notin DOMAIN cmts \/ getItem(table, cmts[commentId].roomId) = NoRoom
    THEN NotFoundError
    ELSE Proceed

\* like, its reads: the comment and its room must be there, and a Like
\* record that is there already ends the call with the count as it is
likeLookup(cmts, lks, table, commentId, userId) ==
  IF commentId \notin DOMAIN cmts \/ getItem(table, cmts[commentId].roomId) = NoRoom
    THEN NotFoundError
    ELSE IF << commentId, userId >> \in lks
      THEN likeCountOf(cmts, commentId)
      ELSE Proceed

\* like(commentId, userId) run with no other invocation in between
likeAlone(cmts, lks, lims, table, commentId, userId, clock) ==
  LET found == likeLookup(cmts, lks, table, commentId, userId)
      same == [ comments |-> cmts, likes |-> lks, limits |-> lims ]
  IN  IF found # Proceed
        THEN [ store |-> same, outcome |-> found ]
        ELSE
          LET roomId == cmts[commentId].roomId
              key == << userId, roomId, "like" >>
              limit == getItem(table, roomId).settings.maxLikesPerUser
              t == likeTransaction(cmts, lks, commentId, userId)
          IN  IF ~allowed(limitRecord(lims, key), "like", limit, clock)
                THEN [ store |-> same, outcome |-> RateLimitExceeded ]
                ELSE [ store   |-> [ comments |-> t.comments, likes |-> t.likes,
                                     limits |-> recordAction(lims, key, clock) ],
                       outcome |-> likeCountOf(t.comments, commentId) ]

\* unlike(commentId, userId) run with no other invocation in between
unlikeAlone(cmts, lks, lims, commentId, userId) ==
  LET t == unlikeTransaction(cmts, lks, commentId, userId)
  IN  [ store   |-> [ comments |-> t.comments, likes |-> t.likes, limits |-> lims ],
        outcome |-> likeCountOf(t.comments, commentId) ]

\* ----------------------------------------------------------- actions
\* the variables of the stand-alone checks, which no invocation touches
aside == << genInput, genOutput, trace, clients >>

\* the invocation goes on to its next batch, or ends when none is left
AfterBatch(p, pending, r) ==
  IF pending = << >>
    THEN Finish(p, r)
    ELSE /\ pc' = [ pc EXCEPT ![p] = "broadcast_list" ]
         /\ local' = [ local EXCEPT ![p] = [ pending |-> pending, response |-> r ] ]
         /\ result' = NoResult

\* the invocation hands events to BroadcastFanout and answers r after the fan-out
Trigger(p, batch, r) ==
  /\ events' = events \o batch
  /\ AfterBatch(p, batch, r)

\* broadcast(roomId, event): takes the current connection list of the room
BroadcastList(p) ==
  /\ pc[p] = "broadcast_list"
  /\ LET event == Head(local[p].pending)
         targets == listConnections(connections, event.roomId)
     IN  IF targets = {}
           THEN AfterBatch(p, Tail(local[p].pending), local[p].response)
           ELSE /\ pc' = [ pc EXCEPT ![p] = "broadcast_send" ]
                /\ local' = [ local EXCEPT ![p] =
                     [ event    |-> event,
                       targets  |-> targets,
                       pending  |-> Tail(local[p].pending),
                       response |-> local[p].response ] ]
                /\ result' = NoResult
  /\ UNCHANGED << rooms, now, ops, connections, issued, events, inbox, gone,
                  comments, likes, limits, aside >>

\* broadcast: one delivery attempt. A connection found gone is deregistered,
\* and the user_left this causes waits for a batch of its own. To a connection
\* that is there the event is delivered, unless the transport fails for the
\* moment, which leaves the connection registered.
Deliver(p) ==
  /\ pc[p] = "broadcast_send"
  /\ \E c \in local[p].targets :
       LET left == IF c \in gone THEN leftEvents(connections, c) ELSE << >>
           pending == local[p].pending \o left
           targets == local[p].targets \ { c }
       IN  /\ IF c \in gone
                THEN /\ connections' = deleteConnection(connections, c)
                     /\ events' = events \o left
                     /\ UNCHANGED inbox
                ELSE /\ \/ inbox' = [ inbox EXCEPT ![c] = Append(@, local[p].event) ]
                        \/ UNCHANGED inbox
                     /\ UNCHANGED << connections, events >>
           /\ IF targets = {}
                THEN AfterBatch(p, pending, local[p].response)
                ELSE /\ local' = [ local EXCEPT ![p].targets = targets,
                                                ![p].pending = pending ]
                     /\ result' = NoResult
                     /\ UNCHANGED pc
  /\ UNCHANGED << rooms, now, ops, issued, gone, comments, likes, limits, aside >>

\* a client goes away without telling
Drop ==
  /\ \E c \in (1 .. issued) \ gone : gone' = gone \cup { c }
  /\ result' = NoResult
  /\ UNCHANGED << rooms, now, pc, local, ops, connections, issued, events, inbox,
                  comments, likes, limits, aside >>

\* join(roomId, userName) on a new connection: registerConnection up to the
\* room lookup it delegates to RoomRegistry
RegisterStart(p) ==
  /\ Free(p)
  /\ ops < MaxOps
  /\ ops' = ops + 1
  /\ issued < MaxConnections
  /\ issued' = issued + 1
  /\ inbox' = [ c \in 1 .. issued + 1 |-> IF c <= issued THEN inbox[c] ELSE << >> ]
  /\ \E roomId \in RoomIdInputs, userId \in UserIds :
       LET args == [ connectionId |-> issued + 1, roomId |-> roomId,
                     userId |-> userId, userName |-> userNameOf(userId) ]
           found == getRoom(rooms, roomId)
       IN  IF found.class # "ok"
             THEN Finish(p, reply(p, "registerConnection", args, found))
             ELSE /\ pc' = [ pc EXCEPT ![p] = "register_check" ]
                  /\ local' = [ local EXCEPT ![p] = args ]
                  /\ result' = NoResult
  /\ UNCHANGED << rooms, now, connections, events, gone, comments, likes, limits, aside >>

\* registerConnection: the query for the userName among the room's connections
RegisterCheck(p) ==
  /\ pc[p] = "register_check"
  /\ IF userNameInUse(connections, local[p].roomId, local[p].userName, local[p].connectionId)
       THEN Finish(p, reply(p, "registerConnection", local[p], DuplicateUserName))
       ELSE /\ pc' = [ pc EXCEPT ![p] = "register_put" ]
            /\ result' = NoResult
            /\ UNCHANGED local
  /\ UNCHANGED << rooms, now, ops, connections, issued, events, inbox, gone,
                  comments, likes, limits, aside >>

\* registerConnection: the write of the connection record, then user_joined
RegisterPut(p) ==
  /\ pc[p] = "register_put"
  /\ LET args == local[p]
         table == putConnection(connections,
                    makeConnection(args.connectionId, args.roomId, args.userId,
                                   args.userName, now))
     IN  /\ connections' = table
         /\ Trigger(p, << Event("user_joined", args.roomId, args.connectionId,
                                Cardinality(listConnections(table, args.roomId))) >>,
                    reply(p, "registerConnection", args, Returned(200, TRUE)))
  /\ UNCHANGED << rooms, now, ops, issued, inbox, gone, comments, likes, limits, aside >>

\* leave(), or a disconnect the transport reports: deregisterConnection
Deregister(p) ==
  /\ Free(p)
  /\ ops < MaxOps
  /\ ops' = ops + 1
  /\ \E c \in 1 .. issued :
       LET left == leftEvents(connections, c)
           args == [ connectionId |-> c ]
       IN  /\ connections' = deleteConnection(connections, c)
           /\ IF left = << >>
                THEN /\ Finish(p, reply(p, "deregisterConnection", args, Returned(200, FALSE)))
                     /\ UNCHANGED events
                ELSE Trigger(p, left, reply(p, "deregisterConnection", args, Returned(200, TRUE)))
  /\ UNCHANGED << rooms, now, issued, inbox, gone, comments, likes, limits, aside >>

\* the content a POST /rooms/{roomId}/comments body carries
ContentInputs == { << >>, << "h", "i" >>, << "l", "o", "n", "g" >> }

\* the commentId a /comments/{commentId}/likes path carries
CommentIdInputs == DOMAIN comments \cup { AbsentCommentId }

Posting == { p \in Procs : pc[p] \in { "post_limit", "post_put" } }

\* postComment up to the rate limiter: the room must be active, the content valid
PostStart(p) ==
  /\ Free(p)
  /\ ops < MaxOps
  /\ ops' = ops + 1
  /\ Cardinality(DOMAIN comments) + Cardinality(Posting) < MaxComments
  /\ \E roomId \in RoomIdInputs, userId \in UserIds, content \in ContentInputs :
       LET args == [ roomId |-> roomId, userId |-> userId, content |-> content,
                     timestamp |-> now ]
           found == getRoom(rooms, roomId)
       IN  IF found.class # "ok"
             THEN Finish(p, reply(p, "postComment", args, found))
             ELSE IF contentRejected(content, found.room.settings)
               THEN Finish(p, reply(p, "postComment", args, ValidationError))
               ELSE /\ pc' = [ pc EXCEPT ![p] = "post_limit" ]
                    /\ local' = [ local EXCEPT ![p] =
                         [ args  |-> args,
                           limit |-> found.room.settings.maxCommentsPerUser ] ]
                    /\ result' = NoResult
  /\ UNCHANGED << rooms, now, connections, issued, events, inbox, gone,
                  comments, likes, limits, aside >>

\* postComment: RateLimiter.checkAndRecord(userId, roomId, comment, limit)
PostLimit(p) ==
  /\ pc[p] = "post_limit"
  /\ LET args == local[p].args
         key == << args.userId, args.roomId, "comment" >>
     IN  IF allowed(limitRecord(limits, key), "comment", local[p].limit, now)
           THEN /\ limits' = recordAction(limits, key, now)
                /\ pc' = [ pc EXCEPT ![p] = "post_put" ]
                /\ result' = NoResult
                /\ UNCHANGED local
           ELSE /\ UNCHANGED limits
                /\ Finish(p, reply(p, "postComment", args, RateLimitExceeded))
  /\ UNCHANGED << rooms, now, ops, connections, issued, events, inbox, gone,
                  comments, likes, aside >>

\* postComment: the comment is persisted with likeCount 0, then comment_new
PostPut(p) ==
  /\ pc[p] = "post_put"
  /\ LET args == local[p].args
         item == makeComment(Cardinality(DOMAIN comments) + 1, args.roomId,
                             args.userId, args.content, args.timestamp)
     IN  /\ comments' = putComment(comments, item)
         /\ Trigger(p, << Event("comment_new", args.roomId, item.commentId, 0) >>,
                    reply(p, "postComment", args, Returned(201, item)))
  /\ UNCHANGED << rooms, now, ops, connections, issued, inbox, gone, likes, limits, aside >>

\* like up to the rate limiter: the comment must be there, and a Like record
\* that is there already makes the call a no-op
LikeStart(p) ==
  /\ Free(p)
  /\ ops < MaxOps
  /\ ops' = ops + 1
  /\ \E commentId \in CommentIdInputs, userId \in UserIds :
       LET args == [ commentId |-> commentId, userId |-> userId ]
           found == likeLookup(comments, likes, rooms, commentId, userId)
       IN  IF found # Proceed
             THEN Finish(p, reply(p, "like", args, found))
             ELSE /\ pc' = [ pc EXCEPT ![p] = "like_limit" ]
                  /\ local' = [ local EXCEPT ![p] =
                       [ args   |-> args,
                         roomId |-> comments[commentId].roomId,
                         limit  |-> getItem(rooms, comments[commentId].roomId)
                                      .settings.maxLikesPerUser ] ]
                  /\ result' = NoResult
  /\ UNCHANGED << rooms, now, connections, issued, events, inbox, gone,
                  comments, likes, limits, aside >>

\* like: RateLimiter.checkAndRecord(userId, roomId, like, limit)
LikeLimit(p) ==
  /\ pc[p] = "like_limit"
  /\ LET args == local[p].args
         key == << args.userId, local[p].roomId, "like" >>
     IN  IF allowed(limitRecord(limits, key), "like", local[p].limit, now)
           THEN /\ limits' = recordAction(limits, key, now)
                /\ pc' = [ pc EXCEPT ![p] = "like_write" ]
                /\ result' = NoResult
                /\ UNCHANGED local
           ELSE /\ UNCHANGED limits
                /\ Finish(p, reply(p, "like", args, RateLimitExceeded))
  /\ UNCHANGED << rooms, now, ops, connections, issued, events, inbox, gone,
                  comments, likes, aside >>

\* like: the transaction, which the store applies whole or fails whole, then
\* like_updated with the new count
LikeWrite(p) ==
  /\ pc[p] = "like_write"
  /\ LET args == local[p].args
         t == likeTransaction(comments, likes, args.commentId, args.userId)
     IN  \E stored \in BOOLEAN :
           IF ~stored
             THEN /\ UNCHANGED << comments, likes, events >>
                  /\ Finish(p, reply(p, "like", args, InternalError))
             ELSE /\ comments' = t.comments
                  /\ likes' = t.likes
                  /\ IF t.applied
                       THEN Trigger(p, << Event("like_updated", local[p].roomId, args.commentId,
                                                t.comments[args.commentId].likeCount) >>,
                                    reply(p, "like", args, likeCountOf(t.comments, args.commentId)))
                       ELSE /\ UNCHANGED events
                            /\ Finish(p, reply(p, "like", args, likeCountOf(comments, args.commentId)))
  /\ UNCHANGED << rooms, now, ops, connections, issued, inbox, gone, limits, aside >>

\* unlike up to its write: the comment must be there
UnlikeStart(p) ==
  /\ Free(p)
  /\ ops < MaxOps
  /\ ops' = ops + 1
  /\ \E commentId \in CommentIdInputs, userId \in UserIds :
       LET args == [ commentId |-> commentId, userId |-> userId ]
       IN  IF commentId \notin DOMAIN comments
             THEN Finish(p, reply(p, "unlike", args, NotFoundError))
             ELSE /\ pc' = [ pc EXCEPT ![p] = "unlike_write" ]
                  /\ local' = [ local EXCEPT ![p] =
                       [ args |-> args, roomId |-> comments[commentId].roomId ] ]
                  /\ result' = NoResult
  /\ UNCHANGED << rooms, now, connections, issued, events, inbox, gone,
                  comments, likes, limits, aside >>

\* unlike: the transaction, then like_updated with the new count
UnlikeWrite(p) ==
  /\ pc[p] = "unlike_write"
  /\ LET args == local[p].args
         t == unlikeTransaction(comments, likes, args.commentId, args.userId)
     IN  \E stored \in BOOLEAN :
           IF ~stored
             THEN /\ UNCHANGED << comments, likes, events >>
                  /\ Finish(p, reply(p, "unlike", args, InternalError))
             ELSE /\ comments' = t.comments
                  /\ likes' = t.likes
                  /\ IF t.applied
                       THEN Trigger(p, << Event("like_updated", local[p].roomId, args.commentId,
                                                t.comments[args.commentId].likeCount) >>,
                                    reply(p, "unlike", args, likeCountOf(t.comments, args.commentId)))
                       ELSE /\ UNCHANGED events
                            /\ Finish(p, reply(p, "unlike", args, likeCountOf(comments, args.commentId)))
  /\ UNCHANGED << rooms, now, ops, connections, issued, inbox, gone, limits, aside >>

\* time passes while the room is live
TickPost ==
  /\ \E t \in PostClockReadings :
       /\ t > now
       /\ now' = t
  /\ result' = NoResult
  /\ UNCHANGED << rooms, pc, local, ops, live, clients, genInput, genOutput >>

\* a live room, nobody connected yet
InitLive ==
  /\ rooms = LiveRooms
  /\ now = 0
  /\ pc = [ p \in Procs |-> "idle" ]
  /\ local = [ p \in Procs |-> NoLocal ]
  /\ result = NoResult
  /\ ops = 0
  /\ genInput = << >>
  /\ Deployed
  /\ genOutput = << >>
  /\ NoLive

NextLive ==
  \/ \E p \in Procs : RegisterStart(p)
  \/ \E p \in Procs : RegisterCheck(p)
  \/ \E p \in Procs : RegisterPut(p)
  \/ \E p \in Procs : Deregister(p)
  \/ \E p \in Procs : BroadcastList(p)
  \/ \E p \in Procs : Deliver(p)
  \/ \E p \in Procs : CloseRoomStart(p)
  \/ \E p \in Procs : CloseRoomUpdate(p)
  \/ Drop

\* connections join and leave a live room, clients go away, the host closes
SpecLive == InitLive /\ [][NextLive]_vars

\* a live room with one participant connected: the state registerConnection
\* leaves when its user_joined has been delivered
InitComments ==
  /\ rooms = LiveRooms
  /\ now = 0
  /\ pc = [ p \in Procs |-> "idle" ]
  /\ local = [ p \in Procs |-> NoLocal ]
  /\ result = NoResult
  /\ ops = 0
  /\ genInput = << >>
  /\ Deployed
  /\ genOutput = << >>
  /\ connections = putConnection(<< >>, makeConnection(1, LiveRoomId, "u1", userNameOf("u1"), 0))
  /\ issued = 1
  /\ events = << Event("user_joined", LiveRoomId, 1, 1) >>
  /\ inbox = [ c \in { 1 } |-> << Event("user_joined", LiveRoomId, 1, 1) >> ]
  /\ gone = {}
  /\ comments = << >>
  /\ likes = {}
  /\ limits = << >>
  /\ trace = << >>

NextComments ==
  \/ \E p \in Procs : PostStart(p)
  \/ \E p \in Procs : PostLimit(p)
  \/ \E p \in Procs : PostPut(p)
  \/ \E p \in Procs : LikeStart(p)
  \/ \E p \in Procs : LikeLimit(p)
  \/ \E p \in Procs : LikeWrite(p)
  \/ \E p \in Procs : UnlikeStart(p)
  \/ \E p \in Procs : UnlikeWrite(p)
  \/ \E p \in Procs : BroadcastList(p)
  \/ \E p \in Procs : Deliver(p)

\* participants post, like and unlike while one connection listens
SpecComments == InitComments /\ [][NextComments]_vars

\* the live room with a connection of each user registered
InitFanout ==
  /\ rooms = LiveRooms
  /\ now = 0
  /\ pc = [ p \in Procs |-> "idle" ]
  /\ local = [ p \in Procs |-> NoLocal ]
  /\ result = NoResult
  /\ ops = 0
  /\ genInput = << >>
  /\ Deployed
  /\ genOutput = << >>
  /\ connections =
       putConnection(putConnection(<< >>,
                       makeConnection(1, LiveRoomId, "u1", userNameOf("u1"), 0)),
                     makeConnection(2, LiveRoomId, "u2", userNameOf("u2"), 0))
  /\ issued = 2
  /\ events = << Event("user_joined", LiveRoomId, 1, 1), Event("user_joined", LiveRoomId, 2, 2) >>
  /\ inbox = [ c \in { 1, 2 } |->
                 IF c = 1 THEN events ELSE << Event("user_joined", LiveRoomId, 2, 2) >> ]
  /\ gone = {}
  /\ comments = << >>
  /\ likes = {}
  /\ limits = << >>
  /\ trace = << >>

NextFanout ==
  \/ \E p \in Procs : PostStart(p)
  \/ \E p \in Procs : PostLimit(p)
  \/ \E p \in Procs : PostPut(p)
  \/ \E p \in Procs : BroadcastList(p)
  \/ \E p \in Procs : Deliver(p)
  \/ Drop

\* participants post while the clients of the two connections may go away
SpecFanout == InitFanout /\ [][NextFanout]_vars

NextPost ==
  \/ \E p \in Procs : PostStart(p)
  \/ \E p \in Procs : PostLimit(p)
  \/ \E p \in Procs : PostPut(p)
  \/ \E p \in Procs : BroadcastList(p)
  \/ TickPost

\* participants post while time passes
SpecPost == InitLive /\ [][NextPost]_vars

\* ------------------------------------- one client's likes in a row
\* what the client notes of a call: the operation, how it ended, and the
\* likeCount of the comment after it
Noted(op, outcome, cmts, commentId) ==
  [ op        |-> op,
    code      |-> IF outcome.class = "ok" THEN "OK" ELSE createErrorResponse(outcome).code,
    likeCount |-> cmts[commentId].likeCount ]

\* the events a like or unlike that changed the count hands to the fan-out
likeUpdated(before, after, commentId) ==
  IF after[commentId].likeCount = before[commentId].likeCount
    THEN << >>
    ELSE << Event("like_updated", after[commentId].roomId, commentId,
                  after[commentId].likeCount) >>

\* a comment in the live room that some of the users like already, and a
\* client who is about to like and unlike it; nobody is connected
InitLikeSeq ==
  /\ rooms = LiveRooms
  /\ now = 0
  /\ pc = [ p \in Procs |-> "idle" ]
  /\ local = [ p \in Procs |-> NoLocal ]
  /\ result = NoResult
  /\ ops = 0
  /\ genInput = << >>
  /\ Deployed
  /\ genOutput = << >>
  /\ connections = << >>
  /\ issued = 0
  /\ inbox = << >>
  /\ gone = {}
  /\ \E likers \in SUBSET UserIds, client \in UserIds :
       /\ comments = putComment(<< >>,
                        [ makeComment(1, LiveRoomId, "u1", << "h", "i" >>, 0)
                            EXCEPT !.likeCount = Cardinality(likers) ])
       /\ likes = { << 1, u >> : u \in likers }
       /\ limits = [ k \in { << u, LiveRoomId, "like" >> : u \in likers }
                            \cup { << "u1", LiveRoomId, "comment" >> } |->
                       [ count |-> 1, lastAt |-> 0 ] ]
       /\ events = << Event("comment_new", LiveRoomId, 1, 0) >>
                     \o [ i \in 1 .. Cardinality(likers) |->
                            Event("like_updated", LiveRoomId, 1, i) ]
       /\ trace = << [ op |-> "client", userId |-> client, commentId |-> 1,
                       code |-> "OK", likeCount |-> Cardinality(likers) ] >>

\* the client calls like and waits for the answer
SeqLike ==
  /\ trace # << >>
  /\ Len(trace) <= MaxTrace
  /\ LET c == trace[1].commentId
         u == trace[1].userId
         r == likeAlone(comments, likes, limits, rooms, c, u, now)
     IN  /\ comments' = r.store.comments
         /\ likes' = r.store.likes
         /\ limits' = r.store.limits
         /\ events' = events \o likeUpdated(comments, r.store.comments, c)
         /\ trace' = Append(trace, Noted("like", r.outcome, r.store.comments, c))
         /\ result' = reply(1, "like", [ commentId |-> c, userId |-> u ], r.outcome)
  /\ UNCHANGED << rooms, now, pc, local, ops, connections, issued, inbox, gone,
                  clients, genInput, genOutput >>

\* the client calls unlike and waits for the answer
SeqUnlike ==
  /\ trace # << >>
  /\ Len(trace) <= MaxTrace
  /\ LET c == trace[1].commentId
         u == trace[1].userId
         r == unlikeAlone(comments, likes, limits, c, u)
     IN  /\ comments' = r.store.comments
         /\ likes' = r.store.likes
         /\ limits' = r.store.limits
         /\ events' = events \o likeUpdated(comments, r.store.comments, c)
         /\ trace' = Append(trace, Noted("unlike", r.outcome, r.store.comments, c))
         /\ result' = reply(1, "unlike", [ commentId |-> c, userId |-> u ], r.outcome)
  /\ UNCHANGED << rooms, now, pc, local, ops, connections, issued, inbox, gone,
                  clients, genInput, genOutput >>

NextLikeSeq ==
  \/ SeqLike
  \/ SeqUnlike

SpecLikeSeq == InitLikeSeq /\ [][NextLikeSeq]_vars

\* --------------------------------------------- listComments by likes
Digits == << "0", "1", "2", "3", "4", "5", "6", "7", "8", "9" >>

\* String.prototype.charCodeAt, for the characters an index key is made of
CharCodes ==
  [ c \in { "#" } \cup Range(Digits) \cup Range(UpperLetters) |->
      IF c = "#" THEN 35
      ELSE IF c \in Range(Digits) THEN 47 + IndexOf(Digits, c)
      ELSE 64 + IndexOf(UpperLetters, c) ]

charCode(c) == CharCodes[c]

\* the order of the store's string sort keys: the first character that
\* differs decides, and a proper prefix comes first
lexLess(s, t) ==
  LET shorter == IF Len(s) < Len(t) THEN Len(s) ELSE Len(t)
      differing == { i \in 1 .. shorter : s[i] # t[i] }
  IN  IF differing = {} THEN Len(s) < Len(t)
      ELSE LET first == CHOOSE i \in differing : \A j \in differing : i <= j
           IN  charCode(s[first]) < charCode(t[first])

\* Number.prototype.toString
RECURSIVE toDecimal(_)
toDecimal(n) ==
  IF n < 10 THEN << Digits[n + 1] >>
  ELSE toDecimal(n \div 10) \o << Digits[(n % 10) + 1] >>

\* mutant of padStart: the numeral is left at its own width
padStartNothing(s, targetLength, padChar) == s

\* String.prototype.padStart with a one-character pad
RECURSIVE padStart(_, _, _)
padStart(s, targetLength, padChar) ==
  IF Len(s) >= targetLength THEN s
  ELSE padStart(<< padChar >> \o s, targetLength, padChar)

\* GSI1SK: "LIKES#${likeCount.padStart(10, '0')}#${commentId}"
likesKey(comment) ==
  << "L", "I", "K", "E", "S", "#" >>
    \o padStart(toDecimal(comment.likeCount), LIKE_COUNT_WIDTH, "0")
    \o << "#" >> \o toDecimal(comment.commentId)

\* a Query of the index partition, ScanIndexForward false: the ids by descending key
RECURSIVE queryDescending(_)
queryDescending(keys) ==
  IF DOMAIN keys = {} THEN << >>
  ELSE LET top == CHOOSE a \in DOMAIN keys :
                    \A b \in DOMAIN keys : ~lexLess(keys[a], keys[b])
       IN  << top >> \o queryDescending([ id \in DOMAIN keys \ { top } |-> keys[id] ])

NoCursor == 0

\* listComments(roomId, 'likes', limit, cursor): the page after the cursor
listCommentsByLikes(cmts, roomId, limit, cursor) ==
  LET partition == { c \in DOMAIN cmts : cmts[c].roomId = roomId }
      order == queryDescending([ c \in partition |-> likesKey(cmts[c]) ])
      start == IF cursor = NoCursor \/ cursor \notin partition THEN 0
               ELSE CHOOSE i \in 1 .. Len(order) : order[i] = cursor
      stop == IF start + limit < Len(order) THEN start + limit ELSE Len(order)
  IN  [ i \in 1 .. stop - start |-> cmts[order[start + i]] ]

\* the likeCount a comment may have reached
LikeCountInputs == { 0, 9, 10 }

\* the users of a room with many likes: the two authors, who take turns,
\* and the n-th user to like comment c, every like being by a user of its own
authorOf(commentId) == << "u", 0, 2 - (commentId % 2) >>

liker(c, n) == << "u", c, n >>

\* the Like records behind the likeCounts
likesOf(likeCount) ==
  UNION { { << c, liker(c, n) >> : n \in 1 .. likeCount[c] } : c \in DOMAIN likeCount }

\* the events the posts and likes of comments 1 .. c handed to the fan-out
RECURSIVE postedAndLiked(_, _)
postedAndLiked(c, likeCount) ==
  IF c = 0 THEN << >>
  ELSE postedAndLiked(c - 1, likeCount)
         \o << Event("comment_new", LiveRoomId, c, 0) >>
         \o [ n \in 1 .. likeCount[c] |-> Event("like_updated", LiveRoomId, c, n) ]

\* the live room with comments that were posted and liked, in any way the
\* posts and likes can have run
InitList ==
  /\ rooms = LiveRooms
  /\ now = MaxHalfIntervals * (MIN_POST_INTERVAL_MS \div 2)
  /\ pc = [ p \in Procs |-> "idle" ]
  /\ local = [ p \in Procs |-> NoLocal ]
  /\ result = NoResult
  /\ ops = 0
  /\ genInput = << >>
  /\ Deployed
  /\ genOutput = << >>
  /\ connections = << >>
  /\ issued = 0
  /\ inbox = << >>
  /\ gone = {}
  /\ trace = << >>
  /\ \E timestamp \in [ 1 .. MaxComments -> { 0, MIN_POST_INTERVAL_MS \div 2 } ],
        likeCount \in [ 1 .. MaxComments -> LikeCountInputs ] :
       /\ comments = [ c \in 1 .. MaxComments |->
                         [ commentId |-> c,
                           roomId    |-> LiveRoomId,
                           userId    |-> authorOf(c),
                           userName  |-> authorOf(c),
                           content   |-> << "h", "i" >>,
                           timestamp |-> timestamp[c],
                           likeCount |-> likeCount[c] ] ]
       /\ likes = likesOf(likeCount)
       /\ limits =
            [ k \in { << authorOf(c), LiveRoomId, "comment" >> : c \in 1 .. MaxComments }
                      \cup { << l[2], LiveRoomId, "like" >> : l \in likesOf(likeCount) } |->
                IF k[3] = "comment"
                  THEN [ count  |-> Cardinality({ c \in 1 .. MaxComments : authorOf(c) = k[1] }),
                         lastAt |-> now ]
                  ELSE [ count |-> 1, lastAt |-> now ] ]
       /\ events = postedAndLiked(MaxComments, likeCount)

\* GET /rooms/{roomId}/comments?sortBy=likes&limit&cursor
ListComments(p) ==
  /\ Free(p)
  /\ ops < MaxOps
  /\ ops' = ops + 1
  /\ \E roomId \in RoomIdInputs, limit \in 1 .. MaxComments,
        cursor \in DOMAIN comments \cup { NoCursor } :
       Finish(p, reply(p, "listComments",
                       [ roomId |-> roomId, sortBy |-> "likes", limit |-> limit,
                         cursor |-> cursor ],
                       Returned(200, listCommentsByLikes(comments, roomId, limit, cursor))))
  /\ UNCHANGED << rooms, now, connections, issued, events, inbox, gone,
                  comments, likes, limits, aside >>

NextList == \E p \in Procs : ListComments(p)

SpecList == InitList /\ [][NextList]_vars

\* ------------------------------------------------- getWebSocketClient
\* new ApiGatewayManagementApiClient({ region, endpoint: wsEndpoint, ... })
ApiGatewayManagementApiClient(wsEndpoint) == [ endpoint |-> wsEndpoint ]

\* the endpoints a caller passes besides none
ExplicitEndpoints == { "https://e1", "https://e2" }

EndpointInputs == { NoEndpoint } \cup ExplicitEndpoints

\* endpoint || process.env.WEBSOCKET_ENDPOINT
wsEndpointOf(endpoint, environment) ==
  IF endpoint # NoEndpoint THEN endpoint ELSE environment.WEBSOCKET_ENDPOINT

\* nothing thrown
NoError == ""

\* getWebSocketClient(endpoint): the cache after the call, and the client
\* returned or the error thrown
getWebSocketClient(cached, endpoint, environment) ==
  IF cached = NoClient \/ endpoint # NoEndpoint
    THEN IF wsEndpointOf(endpoint, environment) = NoEndpoint
           THEN [ cache |-> cached, threw |-> "WebSocket endpoint not configured" ]
           ELSE [ cache |-> ApiGatewayManagementApiClient(wsEndpointOf(endpoint, environment)),
                  threw |-> NoError ]
    ELSE [ cache |-> cached, threw |-> NoError ]

\* the functions deployed with WEBSOCKET_ENDPOINT set, or without it
InitClient ==
  /\ rooms = << >>
  /\ now = 0
  /\ pc = [ p \in Procs |-> "idle" ]
  /\ local = [ p \in Procs |-> NoLocal ]
  /\ result = NoResult
  /\ ops = 0
  /\ genInput = << >>
  /\ genOutput = << >>
  /\ NoLive
  /\ apiGatewayManagementClient = [ p \in Procs |-> NoClient ]
  /\ env \in { [ WEBSOCKET_ENDPOINT |-> ConfiguredEndpoint ],
              [ WEBSOCKET_ENDPOINT |-> NoEndpoint ] }

\* code running in execution environment p calls getWebSocketClient(endpoint)
GetWebSocketClient(p) ==
  \E endpoint \in EndpointInputs :
    LET call == getWebSocketClient(apiGatewayManagementClient[p], endpoint, env)
    IN  /\ ops < MaxOps
        /\ ops' = ops + 1
        /\ apiGatewayManagementClient' =
             [ apiGatewayManagementClient EXCEPT ![p] = call.cache ]
        /\ result' = [ proc     |-> p,
                       op       |-> "getWebSocketClient",
                       endpoint |-> endpoint,
                       threw    |-> call.threw,
                       client   |-> IF call.threw = NoError THEN call.cache ELSE NoClient ]
        /\ UNCHANGED << rooms, now, pc, local, genInput, genOutput, live, env >>

NextClient == \E p \in Procs : GetWebSocketClient(p)

SpecClient == InitClient /\ [][NextClient]_vars

\* ------------------------------------------------------------- claims
\* this step hands back invocation p's response to the named operation
Completes(p, op) == result'.op = op /\ result'.proc = p

IsActive(id) == id \in DOMAIN rooms /\ rooms[id].status = "active"

IsClosed(id) == id \in DOMAIN rooms /\ rooms[id].status = "closed"

ActiveHolders(roomCode) ==
  { id \in DOMAIN rooms : IsActive(id) /\ rooms[id].roomCode = roomCode }

\* C1: no two rooms with status active ever hold the same roomCode, whatever
\* the interleaving of createRoom, closeRoom and expiry.
C1_UniqueActiveCodes ==
  \A a \in DOMAIN rooms, b \in DOMAIN rooms :
    (a # b /\ IsActive(a) /\ IsActive(b)) => rooms[a].roomCode # rooms[b].roomCode

\* C2: closeRoom on a room that exists and is already closed answers 409
\* Conflict, and a well-formed DELETE /rooms/{roomId} answers 200, 403, 404 or 409.
C2_CloseClosedIsConflict ==
  [][ \A p \in Procs :
        Completes(p, "closeRoom") =>
          /\ (pc[p] = "idle" /\ IsClosed(result'.roomId)) => result'.statusCode = 409
          /\ result'.statusCode \in { 200, 403, 404, 409 } ]_vars

\* C3 as stated: a code collision never makes createRoom return an error
\* (it would draw a fresh code instead).
C3_CollisionNeverFails ==
  result.op = "createRoom" => result.code # "ROOM_CODE_EXISTS"

\* C3 as amended: createRoom does not retry. When an active room holds the
\* generated code and the uniqueness lookup sees it (it does whenever the
\* table fits in one scan page), createRoom fails with 409 ROOM_CODE_EXISTS
\* and writes nothing; it goes on to the write, with the code it first drew,
\* only when the lookup finds no holder, and always when there is none.
C3_CollisionRejected ==
  [][ \A p \in Procs :
        (pc[p] = "create_validate" /\ pc'[p] # "create_validate") =>
          LET held == ActiveHolders(local[p].roomItem.roomCode) # {}
          IN  /\ pc'[p] = "idle" =>
                   /\ held
                   /\ Completes(p, "createRoom")
                   /\ result'.statusCode = 409
                   /\ result'.code = "ROOM_CODE_EXISTS"
                   /\ rooms' = rooms
              /\ pc'[p] # "idle" => (pc'[p] = "create_put" /\ local'[p] = local[p])
              /\ ~held => pc'[p] = "create_put"
              /\ (held /\ Cardinality(DOMAIN rooms) <= ScanPageLimit) => pc'[p] = "idle" ]_vars

C3_Witness ==
  /\ result.op = "createRoom"
  /\ result.code = "ROOM_CODE_EXISTS"
  /\ ActiveHolders(result.roomCode) # {}

C7_ExpiredIsAbsent ==
  [][ \A p \in Procs :
        /\ (Completes(p, "getRoom") /\ result'.roomId \in DOMAIN rooms
              /\ isExpired(rooms[result'.roomId], now)) =>
             result'.statusCode = 404
        /\ (Completes(p, "getRoomByCode") /\ result'.statusCode = 200) =>
             ~isExpired(rooms[result'.room.roomId], now) ]_vars

\* C8: getRoomByCode returns only rooms that are active and hold the
\* upper-cased code, so it answers 404 NotFound for the code of a closed room
\* unless an active room holds that code too.
C8_ByCodeOnlyActive ==
  [][ \A p \in Procs :
        Completes(p, "getRoomByCode") =>
          LET r == result'
          IN  /\ r.statusCode = 200 =>
                   /\ r.room.status = "active"
                   /\ IsActive(r.room.roomId)
                   /\ rooms[r.room.roomId].roomCode = toUpperCase(r.roomCode)
              /\ (Len(r.roomCode) = CODE_LENGTH /\ ActiveHolders(toUpperCase(r.roomCode)) = {}) =>
                   (r.statusCode = 404 /\ r.code = "NOT_FOUND") ]_vars

\* the code of a closed room is held again by a room created after the close,
\* and a lookup by that code returned the new room
C8_Witness ==
  \E a \in DOMAIN rooms, b \in DOMAIN rooms :
    /\ IsClosed(a) /\ IsActive(b)
    /\ rooms[a].roomCode = rooms[b].roomCode
    /\ rooms[a].closedAt <= rooms[b].createdAt
    /\ result.op = "getRoomByCode"
    /\ result.statusCode = 200
    /\ result.room.roomId = b

\* C9: a lookup by the code of an active, unexpired room, written in any
\* letter case, returns that room when no other active room holds the code.
C9_RoundTripByCode ==
  [][ \A p \in Procs :
        Completes(p, "getRoomByCode") =>
          \A id \in DOMAIN rooms :
            ( /\ IsActive(id)
              /\ ~isExpired(rooms[id], now)
              /\ toUpperCase(result'.roomCode) = rooms[id].roomCode
              /\ ActiveHolders(rooms[id].roomCode) = { id } ) =>
              /\ result'.statusCode = 200
              /\ result'.room.roomId = id ]_vars

\* the 32 symbols of a room code: the digits 1-9 and the letters without I, L, O
RoomCodeAlphabet ==
  ({ "1", "2", "3", "4", "5", "6", "7", "8", "9" } \cup Range(UpperLetters))
    \ { "I", "L", "O" }

Emitted(log, type, subject) ==
  { i \in 1 .. Len(log) : log[i].type = type /\ log[i].subject = subject }

\* C11 as stated: every successful closeRoom has handed a room_closing event
\* to the fan-out and has left no connection registered for the room.
C11_CloseBroadcastsAndDrops ==
  [][ \A p \in Procs :
        (Completes(p, "closeRoom") /\ result'.statusCode = 200) =>
          /\ \E i \in 1 .. Len(events') :
                events'[i].type = "room_closing" /\ events'[i].roomId = result'.roomId
          /\ listConnections(connections', result'.roomId) = {} ]_vars

\* C11 as amended: a successful closeRoom only marks the room record closed.
\* Neither of its steps hands an event to the fan-out, delivers one or
\* removes a connection: the room's connections stay registered.
C11_CloseOnlyClosesRecord ==
  [][ \A p \in Procs :
        /\ (pc[p] = "close_update" /\ pc'[p] = "idle" /\ result'.statusCode = 200) =>
             /\ Completes(p, "closeRoom")
             /\ rooms'[result'.roomId].status = "closed"
             /\ rooms'[result'.roomId].closedAt = now
        /\ ((pc[p] # pc'[p] /\ "close_update" \in { pc[p], pc'[p] })
              \/ Completes(p, "closeRoom")) =>
             /\ events' = events
             /\ inbox' = inbox
             /\ connections' = connections ]_vars

\* closeRoom has succeeded on a room that a connection is still registered for
C11_Witness ==
  /\ result.op = "closeRoom"
  /\ result.statusCode = 200
  /\ IsClosed(result.roomId)
  /\ listConnections(connections, result.roomId) # {}

\* C12: when the roomId createRoom picked already has a record at the time of
\* its write, createRoom fails with 409 Conflict and the table is left as it
\* was, whatever the status of the record.
C12_RoomIdCollision ==
  [][ \A p \in Procs :
        (pc[p] = "create_put" /\ pc'[p] # "create_put"
           /\ local[p].roomItem.roomId \in DOMAIN rooms) =>
          /\ Completes(p, "createRoom")
          /\ result'.statusCode = 409
          /\ result'.code = "ROOM_EXISTS"
          /\ rooms' = rooms ]_vars

\* createRoom has failed on the roomId of a record that is closed
C12_Witness ==
  /\ result.op = "createRoom"
  /\ result.code = "ROOM_EXISTS"
  /\ IsClosed(result.roomId)

IsBlank(s) == \A i \in 1 .. Len(s) : IsWhitespace(s[i])

\* C13: createRoom with an empty or whitespace-only hostId answers 400
\* ValidationError at once and writes no record: no invocation with such a
\* hostId reaches the store, and no record has an empty hostId.
C13_BlankHostRejected ==
  [][ /\ \A p \in Procs :
           /\ (Completes(p, "createRoom") /\ IsBlank(result'.hostId)) =>
                /\ pc[p] = "idle"
                /\ result'.statusCode = 400
                /\ result'.code = "VALIDATION_ERROR"
                /\ rooms' = rooms
           /\ pc'[p] = "create_validate" => ~IsBlank(local'[p].hostId)
      /\ \A id \in DOMAIN rooms' : rooms'[id].hostId # << >> ]_vars

\* POST /rooms with a hostId of one blank has been answered 400
C13_Witness ==
  /\ result.op = "createRoom"
  /\ result.statusCode = 400
  /\ result.hostId = << " " >>

\* C14: GET /rooms/code/{roomCode} with a code shorter or longer than 6
\* characters answers 400 ValidationError whatever the table holds.
C14_CodeLengthRejected ==
  [][ \A p \in Procs :
        (Completes(p, "getRoomByCode") /\ Len(result'.roomCode) # 6) =>
          /\ result'.statusCode = 400
          /\ result'.code = "VALIDATION_ERROR"
          /\ rooms' = rooms ]_vars

\* a code of 5 characters is answered 400 while the table holds an active room
C14_Witness ==
  /\ result.op = "getRoomByCode"
  /\ result.statusCode = 400
  /\ Len(result.roomCode) = 5
  /\ \E id \in DOMAIN rooms : IsActive(id)

\* the users that have a Like record for the comment
Likers(commentId) == { u \in UserIds : << commentId, u >> \in likes }

C19_DeregisterIdempotent ==
  [][ /\ \A c \in 1 .. issued' : Cardinality(Emitted(events', "user_left", c)) <= 1
      /\ \A p \in Procs :
           (pc[p] = "idle" /\ Completes(p, "deregisterConnection")
              /\ result'.args.connectionId \notin DOMAIN connections) =>
             /\ result'.statusCode = 200
             /\ connections' = connections
             /\ events' = events ]_vars

\* a connection that was pruned by the fan-out, its user_left emitted, has
\* then been deregistered again, as a no-op
C19_Witness ==
  /\ result.op = "deregisterConnection"
  /\ result.statusCode = 200
  /\ result.value = FALSE
  /\ result.args.connectionId \in gone
  /\ Cardinality(Emitted(events, "user_left", result.args.connectionId)) = 1

\* the comments of a user in a room
CommentsOf(userId, roomId) ==
  { c \in DOMAIN comments : comments[c].userId = userId /\ comments[c].roomId = roomId }

\* C20: under any interleaving of postComment invocations a user never has
\* more comments accepted in a room than the room's maxCommentsPerUser, and
\* a post that reaches the rate limiter less than 3 seconds after the time
\* of an accepted comment of that user in that room fails with
\* RateLimitExceeded, whatever is left of the count quota.
C20_PostQuotaAndInterval ==
  [][ /\ \A u \in UserIds, id \in DOMAIN rooms' :
           Cardinality(CommentsOf(u, id)') <= rooms'[id].settings.maxCommentsPerUser
      /\ \A p \in Procs :
           (pc[p] = "post_limit" /\ pc'[p] # "post_limit"
              /\ \E c \in CommentsOf(local[p].args.userId, local[p].args.roomId) :
                    now - comments[c].timestamp < 3000) =>
             /\ Completes(p, "postComment")
             /\ result'.statusCode = 429
             /\ result'.code = "RATE_LIMIT_EXCEEDED"
             /\ comments' = comments
             /\ limits' = limits ]_vars

\* a post was refused for coming too soon while the user has one comment of
\* the two the room allows
C20_Witness ==
  /\ result.op = "postComment"
  /\ result.statusCode = 429
  /\ Cardinality(CommentsOf(result.args.userId, result.args.roomId)) = 1
  /\ rooms[result.args.roomId].settings.maxCommentsPerUser = 2
  /\ \E c \in CommentsOf(result.args.userId, result.args.roomId) :
        /\ now - comments[c].timestamp < 3000
        /\ now > comments[c].timestamp

\* the page a listComments call was answered with
ListedPage == result.value

Attempts(p) ==
  pc[p] = "broadcast_send" /\ (pc'[p] # pc[p] \/ local'[p] # local[p])

\* the connections invocation p has yet to attempt after this step
TargetsLeft(p) == IF pc'[p] = "broadcast_send" THEN local'[p].targets ELSE {}

\* C22: a delivery attempt of a broadcast, failed or not, leaves the stored
\* comments, likes and rooms as they are; a connection found gone is no longer
\* registered after the attempt; the attempt delivers nothing but the event of
\* its batch, and the batch goes on with the same event and fewer targets; and
\* the invocation ends its fan-out with the answer of its mutation.
C22_PartialFailureIsLocal ==
  [][ \A p \in Procs :
        Attempts(p) =>
          /\ comments' = comments /\ likes' = likes /\ rooms' = rooms
          /\ \A c \in (local[p].targets \ TargetsLeft(p)) \cap gone :
               c \notin DOMAIN connections'
          /\ \A c \in DOMAIN inbox :
               inbox'[c] # inbox[c] =>
                 (c \notin gone /\ inbox'[c] = Append(inbox[c], local[p].event))
          /\ pc'[p] = "broadcast_send" =>
               /\ local'[p].event = local[p].event
               /\ local'[p].targets \subseteq local[p].targets
               /\ local'[p].targets # local[p].targets
          /\ pc'[p] = "idle" => result' = local[p].response ]_vars

\* a post was answered 201 and its comment is stored although connection 2
\* was found gone and pruned; connection 1 got comment_new and, after it,
\* the user_left of connection 2
C22_Witness ==
  /\ result.op = "postComment"
  /\ result.statusCode = 201
  /\ result.value.commentId \in DOMAIN comments
  /\ 2 \in gone
  /\ 2 \notin DOMAIN connections
  /\ 1 \in DOMAIN connections
  /\ \E i \in 1 .. Len(inbox[1]), j \in 1 .. Len(inbox[1]) :
       /\ i < j
       /\ inbox[1][i].type = "comment_new"
       /\ inbox[1][i].subject = result.value.commentId
       /\ inbox[1][j].type = "user_left"
       /\ inbox[1][j].subject = 2

\* C23: a closeRoom that finds the room closed by the time of its update
\* does not return success but fails with 409 Conflict, and a closedAt that
\* has been recorded is never overwritten.
C23_OneCloseWins ==
  [][ /\ \A p \in Procs :
           (pc[p] = "close_update" /\ Completes(p, "closeRoom")
              /\ IsClosed(local[p].roomId)) =>
             result'.statusCode = 409
      /\ \A id \in DOMAIN rooms \cap DOMAIN rooms' :
           rooms[id].closedAt # NoClosedAt => rooms'[id].closedAt = rooms[id].closedAt ]_vars

\* C24: a closeRoom that directly follows the successful createRoom of its
\* room, called with the hostId string that createRoom was called with, is
\* not refused.
C24_CloseWithCreatingHostId ==
  [][ ( /\ result.op = "createRoom"
        /\ result.statusCode = 201
        /\ result'.op = "closeRoom"
        /\ result'.roomId = result.roomId
        /\ result'.hostId = result.hostId ) =>
        result'.statusCode = 200 ]_vars

\* C25: getRoomByCode answers 404 NotFound only if no active room of the
\* table holds the upper-cased code, however many records the table holds.
C25_NotFoundOnlyIfAbsent ==
  [][ \A p \in Procs :
        (Completes(p, "getRoomByCode") /\ result'.statusCode = 404) =>
          ActiveHolders(toUpperCase(result'.roomCode)) = {} ]_vars

\* this step hands back a response of invocation p
Answered(p) == result' # NoResult /\ result'.proc = p

\* the answers the typed errors of the room service call for: status, code
\* and message as the error was thrown with
TypedAnswers ==
  { << e.statusCode, e.code, e.message >> :
      e \in { ValidationError, NotFoundError,
              Thrown("CommentiaError", 410, "ROOM_CLOSED", "Room is closed"),
              Thrown("CommentiaError", 409, "ROOM_CODE_EXISTS", "Room code already exists"),
              Thrown("CommentiaError", 409, "ROOM_EXISTS", "Room already exists"),
              Thrown("CommentiaError", 409, "ROOM_ALREADY_CLOSED", "Room is already closed"),
              Thrown("CommentiaError", 403, "FORBIDDEN", "Only room host can close the room"),
              Thrown("CommentiaError", 404, "NOT_FOUND", "Room not found or access denied"),
              Thrown("CommentiaError", 500, "INTERNAL_ERROR", "Failed to retrieve room"),
              Thrown("CommentiaError", 500, "INTERNAL_ERROR", "Failed to find room"),
              Thrown("CommentiaError", 500, "INTERNAL_ERROR", "Failed to close room") } }

\* C26: every step in which a room handler meets an error ends the invocation
\* with a response; the response carries the status, code and message of a
\* typed error, or 500 INTERNAL_ERROR with the generic message, and never
\* the name or the text of the store's error. A store error that createRoom
\* rethrows as it is answers 500 INTERNAL_ERROR, "Internal server error".
C26_ErrorsBecomeResponses ==
  [][ \A p \in Procs :
        /\ (pc[p] # "idle" /\ pc'[p] = "idle") => Answered(p)
        /\ (Answered(p) /\ result'.statusCode \notin { 200, 201 }) =>
             /\ \/ << result'.statusCode, result'.code, result'.message >> \in TypedAnswers
                \/ << result'.statusCode, result'.code, result'.message >>
                     = << 500, "INTERNAL_ERROR", "Internal server error" >>
             /\ result'.message # StoreErrorText
             /\ result'.code # StoreFailure.code
        /\ (pc[p] = "create_put" /\ pc'[p] = "idle" /\ rooms' = rooms
              /\ local[p].roomItem.roomId \notin DOMAIN rooms) =>
             << result'.statusCode, result'.code, result'.message >>
               = << 500, "INTERNAL_ERROR", "Internal server error" >> ]_vars

\* the PutCommand of a createRoom failed in the store and the client was
\* answered 500 with the generic message
C26_Witness ==
  /\ result.op = "createRoom"
  /\ result.statusCode = 500
  /\ result.code = "INTERNAL_ERROR"
  /\ result.message = "Internal server error"
  /\ result.roomId \notin DOMAIN rooms

\* C27: the step in which a closeRoom succeeds sets the status of its room to
\* closed and may change its closedAt; the room's roomId, roomCode, hostId,
\* settings, createdAt and ttl stay as they were, no record is added or
\* removed, and every other record stays as it was.
C27_CloseChangesStatusOnly ==
  [][ \A p \in Procs :
        (pc[p] = "close_update" /\ Completes(p, "closeRoom") /\ result'.statusCode = 200) =>
          /\ DOMAIN rooms' = DOMAIN rooms
          /\ rooms'[local[p].roomId].status = "closed"
          /\ \A f \in { "roomId", "roomCode", "hostId", "settings", "createdAt", "ttl" } :
               rooms'[local[p].roomId][f] = rooms[local[p].roomId][f]
          /\ \A id \in DOMAIN rooms \ { local[p].roomId } : rooms'[id] = rooms[id] ]_vars

\* a room was closed at a later clock reading than it was created at, next
\* to another record that is still active
C27_Witness ==
  /\ result.op = "closeRoom"
  /\ result.statusCode = 200
  /\ IsClosed(result.roomId)
  /\ rooms[result.roomId].closedAt > rooms[result.roomId].createdAt
  /\ rooms[result.roomId].ttl = computeTtl(rooms[result.roomId].createdAt)
  /\ \E id \in DOMAIN rooms : id # result.roomId /\ IsActive(id)

\* C28: a step that answers a getRoom or a getRoomByCode, whatever the
\* answer, leaves every room record as it was, hands no event to the fan-out,
\* delivers nothing and leaves the connections as they were.
C28_ReadsArePure ==
  [][ \A p \in Procs :
        (Completes(p, "getRoom") \/ Completes(p, "getRoomByCode")) =>
          /\ rooms' = rooms
          /\ events' = events
          /\ inbox' = inbox
          /\ connections' = connections ]_vars

\* a lookup by code returned an active room while the table also holds a
\* closed one
C28_Witness ==
  /\ result.op = "getRoomByCode"
  /\ result.statusCode = 200
  /\ IsActive(result.room.roomId)
  /\ \E id \in DOMAIN rooms : IsClosed(id)
  /\ events = << >>

C30_ClientBoundAsAsked ==
  [][ \A p \in Procs :
        (/\ Completes(p, "getWebSocketClient")
         /\ env.WEBSOCKET_ENDPOINT = ConfiguredEndpoint) =>
          /\ result'.threw = NoError
          /\ IF result'.endpoint = NoEndpoint
               THEN result'.client.endpoint = env.WEBSOCKET_ENDPOINT
               ELSE result'.client.endpoint = result'.endpoint ]_vars

====
